---- MODULE Spec2Model ----
(***************************************************************************)
(* Model of hpa-scanner.py: the scan of a cluster for Deployments,         *)
(* StatefulSets and ReplicaSets that no HorizontalPodAutoscaler targets    *)
(* and that declare no resource requests/limits.                           *)
(*                                                                         *)
(* Python values are modelled as follows.                                  *)
(*   str        a sequence of one-character strings; None and '' of a      *)
(*              namespace are both the empty sequence (the code only       *)
(*              tests them with `or`, which treats them alike)             *)
(*   Optional   None is {} and a present value x is {x}                    *)
(*   dict[str]  of a container's requests/limits: the set of its keys      *)
(*              (only its truthiness is read)                              *)
(*   list       a sequence                                                 *)
(***************************************************************************)
EXTENDS Integers, Sequences, FiniteSets, TLC

VARIABLES
    pc,                          \* position of main() / of the function under study
    startup,                     \* "pending", "ok" or "failed": initialize_kubernetes_client
    fetch_outcome,               \* per API listing: "pending", "ok", "ApiException", "OtherException"
    hpa_items,                   \* hpa_list.items as returned by the API server
    hpa_targets,                 \* the set get_hpa_resources returns
    deployments,                 \* scan_cluster's local lists
    statefulsets,
    replicasets,
    all_resources_without_hpa,   \* the findings, in order
    console_groups,              \* the namespace groups printed to the console
    summary,                     \* the four counts printed under SUMMARY
    pdf_report,                  \* what generate_pdf_report put in the document
    exit_code,                   \* the process exit code
    resources,                   \* arguments and result of one check_resource_for_hpa call
    resource_type,
    resources_without_hpa

vars == <<pc, startup, fetch_outcome, hpa_items, hpa_targets, deployments,
          statefulsets, replicasets, all_resources_without_hpa, console_groups,
          summary, pdf_report, exit_code, resources, resource_type,
          resources_without_hpa>>

-----------------------------------------------------------------------------
(* Bounds of the model *)

MaxHpaItems == 3
MaxDeployments == 2
MaxStatefulSets == 1
MaxReplicaSets == 1
MaxResources == 2
MaxContainers == 2

-----------------------------------------------------------------------------
(* Python values *)

None == {}
Some(x) == {x}
Get(o) == CHOOSE x \in o : TRUE

\* the characters used, in code point order ('-' 45, '/' 47, 'A'..'Z', 'a'..'z')
CodePoints == <<"-", "/", "D", "R", "S",
                "a", "b", "c", "d", "e", "f", "g", "h", "i", "j", "k", "l", "m",
                "n", "o", "p", "q", "r", "s", "t", "u", "v", "w", "x", "y", "z">>

Ord(c) == CHOOSE i \in 1..Len(CodePoints) : CodePoints[i] = c

\* str.startswith
StartsWith(s, prefix) ==
    /\ Len(s) >= Len(prefix)
    /\ SubSeq(s, 1, Len(prefix)) = prefix

\* str.__lt__: the order sorted() uses on namespace names
StrLess(a, b) ==
    \E i \in 1..(Len(a) + 1) :
        /\ i <= Len(b)
        /\ \A j \in 1..(i - 1) : a[j] = b[j]
        /\ (i = Len(a) + 1 \/ Ord(a[i]) < Ord(b[i]))

SeqsUpTo(S, n) == UNION {[1..k -> S] : k \in 0..n}

-----------------------------------------------------------------------------
(* String literals of the program *)

Default == <<"d", "e", "f", "a", "u", "l", "t">>
KubePrefix == <<"k", "u", "b", "e", "-">>
SystemPrefix == <<"s", "y", "s", "t", "e", "m", "-">>
Deployment == <<"D", "e", "p", "l", "o", "y", "m", "e", "n", "t">>
StatefulSet == <<"S", "t", "a", "t", "e", "f", "u", "l", "S", "e", "t">>
ReplicaSet == <<"R", "e", "p", "l", "i", "c", "a", "S", "e", "t">>

\* f"{namespace}/{kind}/{name}"
TargetId(namespace, kind, name) == namespace \o <<"/">> \o kind \o <<"/">> \o name

\* `x or 'default'`
OrDefault(namespace) == IF namespace = <<>> THEN Default ELSE namespace

-----------------------------------------------------------------------------
(* get_hpa_resources *)

HpaHasTarget(hpa) == hpa.spec # None /\ Get(hpa.spec).scale_target_ref # None

HpaTargetId(hpa) ==
    LET ref == Get(Get(hpa.spec).scale_target_ref)
    IN  TargetId(OrDefault(hpa.metadata.namespace), ref.kind, ref.name)

\* the for loop over hpa_list.items
RECURSIVE HpaLoop(_, _)
HpaLoop(items, targets) ==
    IF items = <<>> THEN targets
    ELSE LET hpa == Head(items)
         IN  IF HpaHasTarget(hpa)
             THEN HpaLoop(Tail(items), targets \cup {HpaTargetId(hpa)})
             ELSE HpaLoop(Tail(items), targets)

\* mutant: the loop assigns hpa_targets = {target_id} instead of adding to it
RECURSIVE HpaLoopOverwrite(_, _)
HpaLoopOverwrite(items, targets) ==
    IF items = <<>> THEN targets
    ELSE IF HpaHasTarget(Head(items))
         THEN HpaLoopOverwrite(Tail(items), {HpaTargetId(Head(items))})
         ELSE HpaLoopOverwrite(Tail(items), targets)

GetHpaResourcesOverwrite(outcome, items) ==
    IF outcome = "ok" THEN HpaLoopOverwrite(items, {}) ELSE {}

\* the value returned when the listing returned (outcome "ok") or raised ApiException
GetHpaResources(outcome, items) ==
    IF outcome = "ok" THEN HpaLoop(items, {}) ELSE {}

-----------------------------------------------------------------------------
(* get_deployments / get_statefulsets / get_replicasets *)

GetWorkloads(outcome, items) == IF outcome = "ok" THEN items ELSE <<>>

-----------------------------------------------------------------------------
(* check_resource_for_hpa *)

\* mutant: only the "kube-" prefix is skipped
ExcludedKubeOnly(namespace) == StartsWith(namespace, KubePrefix)

ExcludedNamespace(namespace) ==
    StartsWith(namespace, KubePrefix) \/ StartsWith(namespace, SystemPrefix)

\* replicas = 1; if hasattr(resource.spec, 'replicas') and resource.spec.replicas: ...
ReplicasOf(resource) ==
    IF /\ resource.spec # None
       /\ Get(resource.spec).replicas # None
       /\ Get(Get(resource.spec).replicas) # 0
    THEN Get(Get(resource.spec).replicas)
    ELSE 1

\* mutant: only the requests are looked at
ContainerDeclaresRequestsOnly(container) ==
    /\ container.resources # None
    /\ Get(container.resources).requests # None
    /\ Get(Get(container.resources).requests) # {}

\* if container.resources: if container.resources.requests or container.resources.limits
ContainerDeclares(container) ==
    /\ container.resources # None
    /\ \/ /\ Get(container.resources).requests # None
          /\ Get(Get(container.resources).requests) # {}
       \/ /\ Get(container.resources).limits # None
          /\ Get(Get(container.resources).limits) # {}

\* the for loop over containers, with its break
RECURSIVE ContainerLoop(_)
ContainerLoop(containers) ==
    IF containers = <<>> THEN FALSE
    ELSE IF ContainerDeclares(Head(containers)) THEN TRUE
    ELSE ContainerLoop(Tail(containers))

HasResourceRequests(resource) ==
    IF resource.spec # None /\ Get(resource.spec).template # None
    THEN LET template == Get(Get(resource.spec).template)
         IN  IF template.spec # None
             THEN LET containers == IF Get(template.spec).containers = None
                                    THEN <<>>
                                    ELSE Get(Get(template.spec).containers)
                  IN  ContainerLoop(containers)
             ELSE FALSE
    ELSE FALSE

FindingOf(resource, kind) ==
    [name |-> resource.metadata.name,
     namespace |-> OrDefault(resource.metadata.namespace),
     type |-> kind,
     replicas |-> ReplicasOf(resource),
     has_resource_requests |-> HasResourceRequests(resource)]

\* the for loop over resources
RECURSIVE CheckLoop(_, _, _, _)
CheckLoop(rs, kind, targets, found) ==
    IF rs = <<>> THEN found
    ELSE LET resource == Head(rs)
             namespace == OrDefault(resource.metadata.namespace)
             target_id == TargetId(namespace, kind, resource.metadata.name)
         IN  IF ExcludedNamespace(namespace)
             THEN CheckLoop(Tail(rs), kind, targets, found)
             ELSE IF target_id \notin targets /\ ~HasResourceRequests(resource)
             THEN CheckLoop(Tail(rs), kind, targets, Append(found, FindingOf(resource, kind)))
             ELSE CheckLoop(Tail(rs), kind, targets, found)

CheckResourceForHpa(rs, kind, targets) == CheckLoop(rs, kind, targets, <<>>)

-----------------------------------------------------------------------------
(* Grouping by namespace: scan_cluster and generate_pdf_report *)

EmptyDict == [k \in {} |-> <<>>]

\* by_namespace = {}; for resource in ...: by_namespace[namespace].append(resource)
RECURSIVE ByNamespace(_, _)
ByNamespace(findings, by) ==
    IF findings = <<>> THEN by
    ELSE LET resource == Head(findings)
             namespace == resource.namespace
             by1 == IF namespace \notin DOMAIN by
                    THEN by @@ (namespace :> <<>>)
                    ELSE by
         IN  ByNamespace(Tail(findings),
                         [by1 EXCEPT ![namespace] = Append(@, resource)])

\* sorted(by_namespace.keys())
RECURSIVE Sorted(_)
Sorted(keys) ==
    IF keys = {} THEN <<>>
    ELSE LET least == CHOOSE k \in keys : \A other \in keys \ {k} : StrLess(k, other)
         IN  <<least>> \o Sorted(keys \ {least})

\* mutant: the keys are walked in dict order (first appearance), not sorted
RECURSIVE FirstSeen(_, _)
FirstSeen(findings, seen) ==
    IF findings = <<>> THEN seen
    ELSE IF \E i \in 1..Len(seen) : seen[i] = Head(findings).namespace
         THEN FirstSeen(Tail(findings), seen)
         ELSE FirstSeen(Tail(findings), Append(seen, Head(findings).namespace))

GroupByNamespaceUnsorted(findings) ==
    LET by_namespace == ByNamespace(findings, EmptyDict)
        order == FirstSeen(findings, <<>>)
    IN  [i \in 1..Len(order) |->
            [namespace |-> order[i], resources |-> by_namespace[order[i]]]]

\* the namespace sections in the order they are written
GroupByNamespace(findings) ==
    LET by_namespace == ByNamespace(findings, EmptyDict)
        order == Sorted(DOMAIN by_namespace)
    IN  [i \in 1..Len(order) |->
            [namespace |-> order[i], resources |-> by_namespace[order[i]]]]

\* mutant: the totals count the findings of each kind, not the fetched lists
CountOfType(findings, kind) == Cardinality({k \in 1..Len(findings) : findings[k].type = kind})

SummaryOfFiltered(deps, stss, rss, findings) ==
    [total_deployments |-> CountOfType(findings, Deployment),
     total_statefulsets |-> CountOfType(findings, StatefulSet),
     total_replicasets |-> CountOfType(findings, ReplicaSet),
     without_hpa |-> Len(findings)]

SummaryOf(deps, stss, rss, findings) ==
    [total_deployments |-> Len(deps),
     total_statefulsets |-> Len(stss),
     total_replicasets |-> Len(rss),
     without_hpa |-> Len(findings)]

-----------------------------------------------------------------------------
(* The objects the API server may return *)

Zeta == <<"z", "e", "t", "a">>
Alpha == <<"a", "l", "p", "h", "a">>
Kube == <<"k", "u", "b", "e">>
KubeNs == <<"k", "u", "b", "e", "-", "s">>
SystemNs == <<"s", "y", "s", "t", "e", "m", "-", "a">>
Api == <<"a", "p", "i">>
Db == <<"d", "b">>

Kinds == {Deployment, StatefulSet, ReplicaSet}

\* V1Container with its V1ResourceRequirements
Container(requirements) == [resources |-> requirements]
Requirements(requests, limits) == Some([requests |-> requests, limits |-> limits])

Plain == Container(None)
CpuRequest == Container(Requirements(Some({"cpu"}), None))

DictChoices == {None, Some({}), Some({"cpu"}), Some({"ephemeral-storage"})}
LimitChoices == {None, Some({"memory"})}

Containers ==
    {Plain} \cup {Container(Requirements(r, l)) : r \in DictChoices, l \in LimitChoices}

\* V1DeploymentSpec / V1StatefulSetSpec / V1ReplicaSetSpec with the pod template
WorkloadSpec(replicas, template) == Some([replicas |-> replicas, template |-> template])
Template(spec) == Some([spec |-> spec])
PodSpec(containers) == Some([containers |-> containers])

Workload(namespace, name, spec) ==
    [metadata |-> [name |-> name, namespace |-> namespace], spec |-> spec]

NoContainers == WorkloadSpec(Some(0), Template(PodSpec(Some(<<Plain>>))))
Declared == WorkloadSpec(Some(3), Template(PodSpec(Some(<<Plain, CpuRequest>>))))

ReplicaChoices == {None, Some(0), Some(1), Some(3)}

Templates ==
    {None, Template(None), Template(PodSpec(None))}
    \cup {Template(PodSpec(Some(cs))) : cs \in SeqsUpTo(Containers, MaxContainers)}

Specs == {None} \cup {WorkloadSpec(r, t) : r \in ReplicaChoices, t \in Templates}

\* V2HorizontalPodAutoscaler
Hpa(namespace, spec) == [metadata |-> [namespace |-> namespace], spec |-> spec]
TargetRef(kind, name) == Some([scale_target_ref |-> Some([kind |-> kind, name |-> name])])

HpaSpecs ==
    {None, Some([scale_target_ref |-> None]),
     TargetRef(Deployment, Api), TargetRef(StatefulSet, Api)}

HpaPool == {Hpa(ns, s) : ns \in {<<>>, Default, Zeta}, s \in HpaSpecs}

\* names are unique within a namespace and kind
UniqueNames(items) ==
    \A i, j \in 1..Len(items) :
        (/\ OrDefault(items[i].metadata.namespace) = OrDefault(items[j].metadata.namespace)
         /\ items[i].metadata.name = items[j].metadata.name) => i = j

Listings(pool, n) == {items \in SeqsUpTo(pool, n) : UniqueNames(items)}

DeploymentPool ==
    {Workload(Zeta, Api, None), Workload(Zeta, Db, NoContainers),
     Workload(Alpha, Api, WorkloadSpec(Some(2), None)), Workload(<<>>, Api, Declared)}
StatefulSetPool == {Workload(Zeta, Api, None), Workload(KubeNs, Db, None)}
ReplicaSetPool == {Workload(Alpha, Db, NoContainers), Workload(SystemNs, Api, None)}
ScanHpaPool == {Hpa(Zeta, TargetRef(Deployment, Api)), Hpa(Zeta, TargetRef(StatefulSet, Api)),
                Hpa(<<>>, None)}

\* what an API call does: returns, raises ApiException, or raises something else
\* (a transport error or timeout of the HTTP layer is not an ApiException)
Outcomes == {"ok", "ApiException", "OtherException"}

Listing == {"hpa", "deployments", "statefulsets", "replicasets"}

-----------------------------------------------------------------------------
(* main: initialize_kubernetes_client, then scan_cluster *)

Init ==
    /\ pc = "start"
    /\ startup = "pending"
    /\ fetch_outcome = [l \in Listing |-> "pending"]
    /\ hpa_items = <<>>
    /\ hpa_targets = {}
    /\ deployments = <<>>
    /\ statefulsets = <<>>
    /\ replicasets = <<>>
    /\ all_resources_without_hpa = <<>>
    /\ console_groups = <<>>
    /\ summary = None
    /\ pdf_report = None
    /\ exit_code = None
    /\ resources = <<>>
    /\ resource_type = Deployment
    /\ resources_without_hpa = <<>>

scanVars == <<hpa_targets, deployments, statefulsets, replicasets,
              all_resources_without_hpa, console_groups, summary, pdf_report>>
unitVars == <<hpa_items, resources, resource_type, resources_without_hpa>>

\* sys.exit(1), directly or from main's `except Exception`
Exit1 ==
    /\ pc' = "exited"
    /\ exit_code' = Some(1)

\* initialize_kubernetes_client and get_cluster_info
InitializeKubernetesClient ==
    /\ pc = "start"
    /\ \E config \in {"in-cluster", "kubeconfig", "ConfigException"}, namespaces \in Outcomes :
        IF config # "ConfigException" /\ namespaces = "ok"
        THEN /\ startup' = "ok"
             /\ pc' = "fetch_hpa"
             /\ UNCHANGED exit_code
        ELSE /\ startup' = "failed"
             /\ Exit1
    /\ UNCHANGED <<fetch_outcome, scanVars, unitVars>>

\* hpa_targets = get_hpa_resources()
FetchHpa ==
    /\ pc = "fetch_hpa"
    /\ \E outcome \in Outcomes, items \in SeqsUpTo(ScanHpaPool, MaxHpaItems) :
        /\ fetch_outcome' = [fetch_outcome EXCEPT !["hpa"] = outcome]
        /\ IF outcome = "OtherException"
           THEN /\ Exit1
                /\ UNCHANGED hpa_targets
           ELSE /\ hpa_targets' = GetHpaResources(outcome, items)
                /\ pc' = "fetch_deployments"
                /\ UNCHANGED exit_code
    /\ UNCHANGED <<startup, deployments, statefulsets, replicasets,
                   all_resources_without_hpa, console_groups, summary, pdf_report, unitVars>>

\* deployments = get_deployments()
FetchDeployments ==
    /\ pc = "fetch_deployments"
    /\ \E outcome \in Outcomes, items \in Listings(DeploymentPool, MaxDeployments) :
        /\ fetch_outcome' = [fetch_outcome EXCEPT !["deployments"] = outcome]
        /\ IF outcome = "OtherException"
           THEN /\ Exit1
                /\ UNCHANGED deployments
           ELSE /\ deployments' = GetWorkloads(outcome, items)
                /\ pc' = "fetch_statefulsets"
                /\ UNCHANGED exit_code
    /\ UNCHANGED <<startup, hpa_targets, statefulsets, replicasets,
                   all_resources_without_hpa, console_groups, summary, pdf_report, unitVars>>

\* statefulsets = get_statefulsets()
FetchStatefulSets ==
    /\ pc = "fetch_statefulsets"
    /\ \E outcome \in Outcomes, items \in Listings(StatefulSetPool, MaxStatefulSets) :
        /\ fetch_outcome' = [fetch_outcome EXCEPT !["statefulsets"] = outcome]
        /\ IF outcome = "OtherException"
           THEN /\ Exit1
                /\ UNCHANGED statefulsets
           ELSE /\ statefulsets' = GetWorkloads(outcome, items)
                /\ pc' = "fetch_replicasets"
                /\ UNCHANGED exit_code
    /\ UNCHANGED <<startup, hpa_targets, deployments, replicasets,
                   all_resources_without_hpa, console_groups, summary, pdf_report, unitVars>>

\* replicasets = get_replicasets()
FetchReplicaSets ==
    /\ pc = "fetch_replicasets"
    /\ \E outcome \in Outcomes, items \in Listings(ReplicaSetPool, MaxReplicaSets) :
        /\ fetch_outcome' = [fetch_outcome EXCEPT !["replicasets"] = outcome]
        /\ IF outcome = "OtherException"
           THEN /\ Exit1
                /\ UNCHANGED replicasets
           ELSE /\ replicasets' = GetWorkloads(outcome, items)
                /\ pc' = "check_deployments"
                /\ UNCHANGED exit_code
    /\ UNCHANGED <<startup, hpa_targets, deployments, statefulsets,
                   all_resources_without_hpa, console_groups, summary, pdf_report, unitVars>>

\* all_resources_without_hpa.extend(check_resource_for_hpa(deployments, 'Deployment', hpa_targets))
CheckDeployments ==
    /\ pc = "check_deployments"
    /\ all_resources_without_hpa' =
           all_resources_without_hpa \o CheckResourceForHpa(deployments, Deployment, hpa_targets)
    /\ pc' = "check_statefulsets"
    /\ UNCHANGED <<startup, fetch_outcome, hpa_targets, deployments, statefulsets, replicasets,
                   console_groups, summary, pdf_report, exit_code, unitVars>>

CheckStatefulSets ==
    /\ pc = "check_statefulsets"
    /\ all_resources_without_hpa' =
           all_resources_without_hpa \o CheckResourceForHpa(statefulsets, StatefulSet, hpa_targets)
    /\ pc' = "check_replicasets"
    /\ UNCHANGED <<startup, fetch_outcome, hpa_targets, deployments, statefulsets, replicasets,
                   console_groups, summary, pdf_report, exit_code, unitVars>>

CheckReplicaSets ==
    /\ pc = "check_replicasets"
    /\ all_resources_without_hpa' =
           all_resources_without_hpa \o CheckResourceForHpa(replicasets, ReplicaSet, hpa_targets)
    /\ pc' = "display"
    /\ UNCHANGED <<startup, fetch_outcome, hpa_targets, deployments, statefulsets, replicasets,
                   console_groups, summary, pdf_report, exit_code, unitVars>>

\* the RESOURCES WITHOUT HPA ENABLED section of the console output
DisplayResults ==
    /\ pc = "display"
    /\ console_groups' = IF all_resources_without_hpa = <<>>
                         THEN <<>>
                         ELSE GroupByNamespace(all_resources_without_hpa)
    /\ pc' = "summary"
    /\ UNCHANGED <<startup, fetch_outcome, hpa_targets, deployments, statefulsets, replicasets,
                   all_resources_without_hpa, summary, pdf_report, exit_code, unitVars>>

\* the SUMMARY section of the console output
PrintSummary ==
    /\ pc = "summary"
    /\ summary' = Some(SummaryOf(deployments, statefulsets, replicasets,
                                 all_resources_without_hpa))
    /\ pc' = "pdf"
    /\ UNCHANGED <<startup, fetch_outcome, hpa_targets, deployments, statefulsets, replicasets,
                   all_resources_without_hpa, console_groups, pdf_report, exit_code, unitVars>>

\* what generate_pdf_report writes: the summary table and one table per namespace
PdfReportOf(findings, deps, stss, rss) ==
    [summary |-> SummaryOf(deps, stss, rss, findings),
     groups |-> IF findings = <<>> THEN <<>> ELSE GroupByNamespace(findings)]

\* if os.getenv('GENERATE_PDF', 'false').lower() == 'true': generate_pdf_report(...)
\* doc.build writes the file, which may raise
GeneratePdf ==
    /\ pc = "pdf"
    /\ \E generate_pdf \in BOOLEAN, written \in BOOLEAN :
        IF generate_pdf /\ ~written
        THEN /\ Exit1
             /\ UNCHANGED pdf_report
        ELSE /\ pdf_report' = IF generate_pdf
                              THEN Some(PdfReportOf(all_resources_without_hpa, deployments,
                                                    statefulsets, replicasets))
                              ELSE None
             /\ pc' = "return"
             /\ UNCHANGED exit_code
    /\ UNCHANGED <<startup, fetch_outcome, hpa_targets, deployments, statefulsets, replicasets,
                   all_resources_without_hpa, console_groups, summary, unitVars>>

\* the value scan_cluster returns
ExitCodeOf(findings) == IF findings # <<>> THEN 1 ELSE 0

\* return 1 / return 0, then sys.exit(exit_code) in main
ReturnExitCode ==
    /\ pc = "return"
    /\ exit_code' = Some(ExitCodeOf(all_resources_without_hpa))
    /\ pc' = "exited"
    /\ UNCHANGED <<startup, fetch_outcome, scanVars, unitVars>>

Next ==
    \/ InitializeKubernetesClient
    \/ FetchHpa
    \/ FetchDeployments
    \/ FetchStatefulSets
    \/ FetchReplicaSets
    \/ CheckDeployments
    \/ CheckStatefulSets
    \/ CheckReplicaSets
    \/ DisplayResults
    \/ PrintSummary
    \/ GeneratePdf
    \/ ReturnExitCode

Spec == Init /\ [][Next]_vars

-----------------------------------------------------------------------------
(* check_resource_for_hpa on its own: one call, over every argument *)

WorkloadPool ==
    {Workload(ns, Api, spec) : ns \in {<<>>, Zeta, Kube, KubeNs, SystemNs},
                               spec \in {None, NoContainers, Declared}}

RichWorkloads == {Workload(ns, Api, spec) : ns \in {Zeta, SystemNs}, spec \in Specs}

IndexKeys ==
    {TargetId(Zeta, Deployment, Api), TargetId(Default, StatefulSet, Api),
     TargetId(KubeNs, Deployment, Api)}

FilterInit ==
    /\ pc = "call"
    /\ resources \in Listings(WorkloadPool, MaxResources) \cup {<<w>> : w \in RichWorkloads}
    /\ resource_type \in Kinds
    /\ hpa_targets \in SUBSET IndexKeys
    /\ resources_without_hpa = <<>>
    /\ startup = "ok"
    /\ fetch_outcome = [l \in Listing |-> "pending"]
    /\ hpa_items = <<>>
    /\ deployments = <<>>
    /\ statefulsets = <<>>
    /\ replicasets = <<>>
    /\ all_resources_without_hpa = <<>>
    /\ console_groups = <<>>
    /\ summary = None
    /\ pdf_report = None
    /\ exit_code = None

CheckResources ==
    /\ pc = "call"
    /\ resources_without_hpa' = CheckResourceForHpa(resources, resource_type, hpa_targets)
    /\ pc' = "returned"
    /\ UNCHANGED <<startup, fetch_outcome, scanVars, exit_code, hpa_items, resources,
                   resource_type>>

FilterNext == CheckResources

FilterSpec == FilterInit /\ [][FilterNext]_vars

\* the findings built from workload w
FindingsFor(w) ==
    {k \in 1..Len(resources_without_hpa) :
        /\ resources_without_hpa[k].name = w.metadata.name
        /\ resources_without_hpa[k].namespace =
               (IF w.metadata.namespace = <<>> THEN Default ELSE w.metadata.namespace)
        /\ resources_without_hpa[k].type = resource_type}

Reported(w) == FindingsFor(w) # {}

\* the containers of the pod template, none when a level is absent
ContainersOf(w) ==
    IF w.spec = None THEN <<>>
    ELSE IF Get(w.spec).template = None THEN <<>>
    ELSE IF Get(Get(w.spec).template).spec = None THEN <<>>
    ELSE IF Get(Get(Get(w.spec).template).spec).containers = None THEN <<>>
    ELSE Get(Get(Get(Get(w.spec).template).spec).containers)

\* the resource names a container gives a request or a limit for
DeclaredNames(c) ==
    IF c.resources = None THEN {}
    ELSE (IF Get(c.resources).requests = None THEN {} ELSE Get(Get(c.resources).requests))
         \cup (IF Get(c.resources).limits = None THEN {} ELSE Get(Get(c.resources).limits))

\* at least one container declares a request or a limit, of any resource
DeclaresAny(w) == \E i \in 1..Len(ContainersOf(w)) : DeclaredNames(ContainersOf(w)[i]) # {}

\* at least one container declares a CPU or memory request or limit
DeclaresCpuOrMemory(w) ==
    \E i \in 1..Len(ContainersOf(w)) :
        DeclaredNames(ContainersOf(w)[i]) \cap {"cpu", "memory"} # {}

NamespaceOf(w) == IF w.metadata.namespace = <<>> THEN Default ELSE w.metadata.namespace

Excluded(w) ==
    StartsWith(NamespaceOf(w), KubePrefix) \/ StartsWith(NamespaceOf(w), SystemPrefix)

Covered(w) == TargetId(NamespaceOf(w), resource_type, w.metadata.name) \in hpa_targets

\* C1: check_resource_for_hpa reports a workload if and only if its namespace
\* ("default" when absent) starts with neither "kube-" nor "system-", its key is
\* not in the coverage index and it has no resource declarations; each such
\* workload is reported once and nothing else is reported.
C1_ReportedIffEligible ==
    pc = "returned" =>
        /\ \A i \in 1..Len(resources) :
               Reported(resources[i]) <=>
                   (/\ ~Excluded(resources[i])
                    /\ ~Covered(resources[i])
                    /\ ~DeclaresAny(resources[i]))
        /\ \A i \in 1..Len(resources) : Cardinality(FindingsFor(resources[i])) <= 1
        /\ \A k \in 1..Len(resources_without_hpa) :
               \E i \in 1..Len(resources) : k \in FindingsFor(resources[i])

C1_Witness ==
    /\ pc = "returned"
    /\ Len(resources) = 2
    /\ Len(resources_without_hpa) = 1
    /\ hpa_targets = {TargetId(KubeNs, Deployment, Api)}
    /\ resource_type = StatefulSet
    /\ resources[1] = Workload(KubeNs, Api, None)
    /\ resources[2] = Workload(<<>>, Api, NoContainers)
    /\ Reported(resources[2])

DeclaredReplicas(w) ==
    IF w.spec = None THEN 1
    ELSE IF Get(w.spec).replicas = None THEN 1
    ELSE Get(Get(w.spec).replicas)

\* C9: every finding carries the name, namespace and kind of its workload, and
\* its replicas value is the workload's declared replica count for every
\* declared count >= 0, 0 included; 1 stands in only for an unspecified count.
C9_FindingCarriesReplicas ==
    pc = "returned" =>
        \A i \in 1..Len(resources) :
            \A k \in FindingsFor(resources[i]) :
                resources_without_hpa[k].replicas = DeclaredReplicas(resources[i])

\* C10 as stated: a workload counts as having resource declarations exactly
\* when a container declares a CPU or memory request or limit, so an eligible
\* workload is reported exactly when no container declares one.
C10_CpuOrMemoryDeclaration ==
    pc = "returned" =>
        \A i \in 1..Len(resources) :
            (~Excluded(resources[i]) /\ ~Covered(resources[i])) =>
                (Reported(resources[i]) <=> ~DeclaresCpuOrMemory(resources[i]))

\* C10 as amended: a workload counts as having resource declarations exactly
\* when at least one container of its pod template has a non-empty requests or
\* limits mapping, whatever the resource names in it; a workload with no spec,
\* no pod template, no containers or only containers without one is evaluated
\* and is reported when uncovered and outside the excluded namespaces.
C10_AnyRequestOrLimit ==
    /\ \A i \in 1..Len(resources) :
           HasResourceRequests(resources[i]) <=> DeclaresAny(resources[i])
    /\ pc = "returned" =>
           \A i \in 1..Len(resources) :
               (~Excluded(resources[i]) /\ ~Covered(resources[i])) =>
                   (Reported(resources[i]) <=> ~DeclaresAny(resources[i]))

C10_Witness ==
    /\ pc = "returned"
    /\ Len(resources) = 1
    /\ ~Excluded(resources[1])
    /\ ~Covered(resources[1])
    /\ Len(ContainersOf(resources[1])) = 2
    /\ DeclaredNames(ContainersOf(resources[1])[1]) = {}
    /\ DeclaredNames(ContainersOf(resources[1])[2]) = {"ephemeral-storage"}
    /\ resources_without_hpa = <<>>

-----------------------------------------------------------------------------
(* get_hpa_resources on its own: one call, over every list of autoscalers *)

IndexInit ==
    /\ pc = "call"
    /\ hpa_items \in SeqsUpTo(HpaPool, MaxHpaItems)
    /\ hpa_targets = {}
    /\ resources = <<>>
    /\ resource_type = Deployment
    /\ resources_without_hpa = <<>>
    /\ startup = "ok"
    /\ fetch_outcome = [l \in Listing |-> "pending"]
    /\ deployments = <<>>
    /\ statefulsets = <<>>
    /\ replicasets = <<>>
    /\ all_resources_without_hpa = <<>>
    /\ console_groups = <<>>
    /\ summary = None
    /\ pdf_report = None
    /\ exit_code = None

BuildIndex ==
    /\ pc = "call"
    /\ \E outcome \in Outcomes :
        /\ fetch_outcome' = [fetch_outcome EXCEPT !["hpa"] = outcome]
        /\ IF outcome = "OtherException"
           THEN /\ pc' = "raised"
                /\ UNCHANGED hpa_targets
           ELSE /\ hpa_targets' = GetHpaResources(outcome, hpa_items)
                /\ pc' = "returned"
    /\ UNCHANGED <<startup, deployments, statefulsets, replicasets,
                   all_resources_without_hpa, console_groups, summary, pdf_report,
                   exit_code, unitVars>>

IndexNext == BuildIndex

IndexSpec == IndexInit /\ [][IndexNext]_vars

Orderings(n) == {p \in [1..n -> 1..n] : \A i, j \in 1..n : p[i] = p[j] => i = j}

Permuted(items, p) == [i \in 1..Len(items) |-> items[p[i]]]

WithTarget(items) ==
    {i \in 1..Len(items) :
        items[i].spec # None /\ Get(items[i].spec).scale_target_ref # None}

KeyOf(hpa) ==
    <<IF hpa.metadata.namespace = <<>> THEN Default ELSE hpa.metadata.namespace,
      Get(Get(hpa.spec).scale_target_ref).kind,
      Get(Get(hpa.spec).scale_target_ref).name>>

\* C8: the index is the set of keys of the autoscalers that have a target
\* reference, one per distinct (namespace, targetKind, targetName); an
\* autoscaler without one adds nothing; every permutation of the list and every
\* list that repeats its entries give the same index.
C8_IndexOrderIndependent ==
    (pc = "returned" /\ fetch_outcome["hpa"] = "ok") =>
        /\ hpa_targets = {TargetId(KeyOf(hpa_items[i])[1], KeyOf(hpa_items[i])[2],
                                   KeyOf(hpa_items[i])[3]) : i \in WithTarget(hpa_items)}
        /\ Cardinality(hpa_targets) = Cardinality({KeyOf(hpa_items[i]) : i \in WithTarget(hpa_items)})
        /\ \A p \in Orderings(Len(hpa_items)) :
               GetHpaResources("ok", Permuted(hpa_items, p)) = hpa_targets
        /\ GetHpaResources("ok", hpa_items \o hpa_items) = hpa_targets
        /\ \A i \in 1..Len(hpa_items) :
               GetHpaResources("ok", Append(hpa_items, hpa_items[i])) = hpa_targets

C8_Witness ==
    /\ pc = "returned"
    /\ fetch_outcome["hpa"] = "ok"
    /\ Len(hpa_items) = 3
    /\ WithTarget(hpa_items) = {1, 3}
    /\ hpa_items[1].metadata.namespace = <<>>
    /\ hpa_items[3].metadata.namespace = Default
    /\ Cardinality(hpa_targets) = 1

-----------------------------------------------------------------------------
(* Properties of the scan *)

Failed(l) == fetch_outcome[l] \in {"ApiException", "OtherException"}

\* the scan got as far as printing the namespace sections
Displayed == pc \in {"summary", "pdf", "return"} \/ (pc = "exited" /\ summary # None)

FetchedList(kind) ==
    IF kind = Deployment THEN deployments
    ELSE IF kind = StatefulSet THEN statefulsets ELSE replicasets

KindListings == {"deployments", "statefulsets", "replicasets"}

\* C2: when the fetch of one workload kind fails, the fetches of the other kinds
\* still run and the scan completes with its summary; a failed kind fetch never
\* aborts the scan.
C2_FailedKindFetchNeverAborts ==
    (/\ pc = "exited"
     /\ startup = "ok"
     /\ fetch_outcome["hpa"] = "ok"
     /\ \E l \in KindListings : Failed(l))
    => (/\ \A l \in KindListings : fetch_outcome[l] # "pending"
        /\ summary # None)

\* C3: when the autoscaler listing fails, get_hpa_resources still returns an
\* index and the scan continues: the workload fetches run and the scan is never
\* aborted by it.
C3_FailedHpaListingFailsOpen ==
    Failed("hpa") =>
        /\ hpa_targets = {}
        /\ pc = "exited" => fetch_outcome["deployments"] # "pending"
        /\ Displayed =>
               \A kind \in Kinds : \A i \in 1..Len(FetchedList(kind)) :
                   (~Excluded(FetchedList(kind)[i]) /\ ~DeclaresAny(FetchedList(kind)[i]))
                   => \E k \in 1..Len(all_resources_without_hpa) :
                          /\ all_resources_without_hpa[k].type = kind
                          /\ all_resources_without_hpa[k].name = FetchedList(kind)[i].metadata.name
                          /\ all_resources_without_hpa[k].namespace = NamespaceOf(FetchedList(kind)[i])

\* C4: once startup has succeeded the exit code is 1 if and only if the findings
\* list is non-empty, whatever the fetch outcomes and whether or not the PDF
\* report is enabled; a failed startup exits with 1.
C4_ExitCodeIffFindings ==
    pc = "exited" =>
        /\ startup = "failed" => exit_code = Some(1)
        /\ startup = "ok" => (exit_code = Some(1) <=> all_resources_without_hpa # <<>>)
        /\ startup = "ok" => exit_code \in {Some(0), Some(1)}

\* C5: a fetch that times out or is cancelled contributes nothing and the scan
\* goes on, so that every scan started after a successful startup ends with a
\* summary and an exit code.
C5_ScanEndsWithSummary ==
    (startup = "ok" /\ \E l \in Listing : fetch_outcome[l] = "OtherException")
    => (pc = "exited" => summary # None /\ exit_code # None)

\* the findings of one namespace, in the order of the findings list
OfNamespace(findings, namespace) ==
    LET In(f) == f.namespace = namespace
    IN  SelectSeq(findings, In)

GroupsOk(groups, findings) ==
    /\ \A i, j \in 1..Len(groups) :
           i < j => StrLess(groups[i].namespace, groups[j].namespace)
    /\ \A i \in 1..Len(groups) :
           /\ groups[i].resources # <<>>
           /\ groups[i].resources = OfNamespace(findings, groups[i].namespace)
    /\ \A k \in 1..Len(findings) :
           Cardinality({i \in 1..Len(groups) : groups[i].namespace = findings[k].namespace}) = 1

KindRank(kind) == IF kind = Deployment THEN 1 ELSE IF kind = StatefulSet THEN 2 ELSE 3

\* the position in its fetched list of the workload a finding was built from
PositionOf(f) ==
    CHOOSE i \in 1..Len(FetchedList(f.type)) :
        /\ OrDefault(FetchedList(f.type)[i].metadata.namespace) = f.namespace
        /\ FetchedList(f.type)[i].metadata.name = f.name

FetchOrder(findings) ==
    \A i, j \in 1..Len(findings) :
        i < j =>
            \/ KindRank(findings[i].type) < KindRank(findings[j].type)
            \/ /\ findings[i].type = findings[j].type
               /\ PositionOf(findings[i]) < PositionOf(findings[j])

\* C6: in the console output and in the PDF the findings are grouped by
\* namespace, the groups are in lexicographic order of namespace, each finding
\* is in exactly the group of its namespace, and inside a group the findings
\* keep the order of fetch and evaluation: Deployments in listing order, then
\* StatefulSets, then ReplicaSets.
C6_GroupedSortedStable ==
    Displayed =>
        /\ FetchOrder(all_resources_without_hpa)
        /\ GroupsOk(console_groups, all_resources_without_hpa)
        /\ \A i \in 1..Len(console_groups) : FetchOrder(console_groups[i].resources)
        /\ pdf_report # None =>
               GroupsOk(Get(pdf_report).groups, all_resources_without_hpa)

C6_Witness ==
    /\ pc = "exited"
    /\ pdf_report # None
    /\ Len(console_groups) = 2
    /\ Get(pdf_report).groups = console_groups
    /\ all_resources_without_hpa[1].namespace = Zeta
    /\ console_groups[1].namespace = Alpha
    /\ Len(console_groups[2].resources) = 3
    /\ console_groups[2].resources[2].type = Deployment
    /\ console_groups[2].resources[3].type = StatefulSet

CountsOk(s) ==
    /\ s.total_deployments = Len(deployments)
    /\ s.total_statefulsets = Len(statefulsets)
    /\ s.total_replicasets = Len(replicasets)
    /\ s.without_hpa = Len(all_resources_without_hpa)
    /\ s.without_hpa <= s.total_deployments + s.total_statefulsets + s.total_replicasets

\* what each listing returned is what the scan holds: everything on success,
\* nothing on ApiException
RawLists ==
    /\ fetch_outcome["deployments"] = "ApiException" => deployments = <<>>
    /\ fetch_outcome["statefulsets"] = "ApiException" => statefulsets = <<>>
    /\ fetch_outcome["replicasets"] = "ApiException" => replicasets = <<>>

\* C7: the three totals of the summary are the lengths of the fetched lists,
\* with the excluded, covered and declared workloads counted, the fourth count
\* is the length of the findings list, and the findings count never exceeds the
\* sum of the totals; the PDF's summary table shows the same counts.
C7_SummaryFromRawLists ==
    /\ RawLists
    /\ summary # None => CountsOk(Get(summary))
    /\ pdf_report # None => CountsOk(Get(pdf_report).summary)

C7_Witness ==
    /\ summary # None
    /\ pdf_report # None
    /\ Get(summary).total_deployments = 2
    /\ Get(summary).total_statefulsets = 1
    /\ Get(summary).total_replicasets = 1
    /\ Get(summary).without_hpa = 1
    /\ \E i \in 1..2 : HasResourceRequests(deployments[i])
    /\ ExcludedNamespace(statefulsets[1].metadata.namespace)
    /\ TargetId(Zeta, Deployment, Api) \in hpa_targets
    /\ \E i \in 1..2 : deployments[i] = Workload(Zeta, Api, None)

\* with ApiException the only failure of a listing, the scan always reaches its
\* summary and returns the exit code of its findings unless the PDF write fails
ApiExceptionIsTolerated ==
    (/\ pc = "exited"
     /\ startup = "ok"
     /\ \A l \in Listing : fetch_outcome[l] # "OtherException")
    => /\ summary # None
       /\ \A l \in Listing : fetch_outcome[l] # "pending"
       /\ exit_code = Some(0) => all_resources_without_hpa = <<>>

====
